---- MODULE Spec2Model ----
(***************************************************************************)
(* A model of realfft (src/src/lib.rs): RealToComplex and ComplexToReal,   *)
(* the two repackers that wrap a complex FFT engine (rustfft).             *)
(*                                                                         *)
(* Numbers.  The scalar type T of the code (f32/f64) is modelled by exact  *)
(* arithmetic: for a transform of length L every value the code computes   *)
(* lies in the ring Z[1/2][z], z = exp(-2 pi i / M), M = lcm(4, L), which  *)
(* holds cos and sin of every multiple of 2 pi / L.  A scalar is a record  *)
(* [e, c] that stands for (c[1] + c[2] z + ... + c[d] z^(d-1)) / 2^e, with *)
(* the polynomial reduced modulo the M-th cyclotomic polynomial, e minimal *)
(* and trailing zeros trimmed, so that equal numbers are equal records.    *)
(* Rounding is therefore not modelled: "equal" here is "equal in exact     *)
(* arithmetic".                                                            *)
(***************************************************************************)
EXTENDS Integers, Sequences, FiniteSets, TLC

\* Even lengths 0, 2, ..., 2 MaxHalfLen and odd lengths 1, 3, ... up to MaxOddLen
\* are explored; the caller's samples go up to MaxVal.
MaxHalfLen == 6
MaxOddLen == 5
MaxVal == 1

Max(a, b) == IF a >= b THEN a ELSE b
Min(a, b) == IF a <= b THEN a ELSE b

\* A function over 1..n as an explicit tuple.
Tup(f) == SubSeq(f, 1, Len(f))

\* M = lcm(4, L): the order of the root of unity that the length-L transforms need.
RingOrder(L) ==
    IF L = 0 THEN 4 ELSE IF L % 4 = 0 THEN L ELSE IF L % 2 = 0 THEN 2 * L ELSE 4 * L

\* The odd part of M and what is left of it.
RECURSIVE OddPart(_)
OddPart(M) == IF M % 2 = 0 THEN OddPart(M \div 2) ELSE M

\* The m-th cyclotomic polynomial for odd m < 17, lowest degree first.
CyclotomicOdd(m) ==
    CASE m = 1 -> <<-1, 1>>
      [] m = 3 -> <<1, 1, 1>>
      [] m = 5 -> <<1, 1, 1, 1, 1>>
      [] m = 7 -> <<1, 1, 1, 1, 1, 1, 1>>
      [] m = 9 -> <<1, 0, 0, 1, 0, 0, 1>>
      [] m = 11 -> <<1, 1, 1, 1, 1, 1, 1, 1, 1, 1, 1>>
      [] m = 13 -> <<1, 1, 1, 1, 1, 1, 1, 1, 1, 1, 1, 1, 1>>
      [] m = 15 -> <<1, -1, 0, 1, -1, 1, 0, -1, 1>>

\* The M-th cyclotomic polynomial for M = 2^a m, a >= 2, m odd: it is the m-th
\* one at -x^(2^(a-1)), and x^(M/2) + 1 when m = 1.
Cyclotomic(M) ==
    LET m == OddPart(M)
        s == (M \div m) \div 2
        odd == CyclotomicOdd(m)
    IN  IF m = 1 THEN Tup([k \in 1..(s + 1) |-> IF k = 1 \/ k = s + 1 THEN 1 ELSE 0])
        ELSE Tup([k \in 1..((Len(odd) - 1) * s + 1) |->
                  IF (k - 1) % s # 0 THEN 0
                  ELSE IF ((k - 1) \div s) % 2 = 0 THEN odd[((k - 1) \div s) + 1]
                  ELSE 0 - odd[((k - 1) \div s) + 1]])

(***************************************************************************)
(* Scalars (the code's T).  A coefficient vector is taken over             *)
(* z^0..z^(M/2-1), since z^(M/2) = -1.                                     *)
(***************************************************************************)
ZeroT == [e |-> 0, c |-> << >>]
IntT(n) == [e |-> 0, c |-> IF n = 0 THEN << >> ELSE <<n>>]

RECURSIVE Trim(_)
Trim(c) == IF c = << >> THEN c
           ELSE IF c[Len(c)] = 0 THEN Trim(SubSeq(c, 1, Len(c) - 1)) ELSE c

RECURSIVE Lowest(_, _)
Lowest(e, c) ==
    IF e > 0 /\ \A k \in 1..Len(c) : c[k] % 2 = 0
    THEN Lowest(e - 1, Tup([k \in 1..Len(c) |-> c[k] \div 2]))
    ELSE [e |-> e, c |-> c]

\* The canonical record of c / 2^e, c already reduced.
NormT(e, c) == LET t == Trim(c) IN IF t = << >> THEN ZeroT ELSE Lowest(e, t)

At(c, k) == IF k <= Len(c) THEN c[k] ELSE 0

\* The coefficient that c contributes at z^p, for any integer p.
Coef(c, M, p) ==
    LET q == p % M IN
    IF 2 * q < M THEN At(c, q + 1) ELSE 0 - At(c, q - (M \div 2) + 1)

AddT(a, b) ==
    LET E == Max(a.e, b.e)
        fa == 2 ^ (E - a.e)
        fb == 2 ^ (E - b.e)
    IN  NormT(E, Tup([k \in 1..Max(Len(a.c), Len(b.c)) |->
                      fa * At(a.c, k) + fb * At(b.c, k)]))

NegT(a) == [e |-> a.e, c |-> Tup([k \in 1..Len(a.c) |-> 0 - a.c[k]])]
SubT(a, b) == AddT(a, NegT(b))

\* Reduction of a coefficient vector over z^0..z^j modulo the cyclotomic polynomial.
RECURSIVE ReduceFrom(_, _, _, _)
ReduceFrom(v, phi, d, j) ==
    IF j < d THEN v
    ELSE LET t == v[j + 1] IN
         ReduceFrom(Tup([k \in 1..j |->
                         IF t # 0 /\ k - 1 >= j - d THEN v[k] - t * phi[k - (j - d)]
                         ELSE v[k]]), phi, d, j - 1)

Reduce(M, v) ==
    LET phi == Cyclotomic(M) IN ReduceFrom(v, phi, Len(phi) - 1, Len(v) - 1)

\* v / 2^e for a vector v over z^0..z^(M/2-1).
MakeT(M, e, v) == NormT(e, Reduce(M, v))

RECURSIVE ConvAt(_, _, _, _, _)
ConvAt(a, b, M, r, i) ==
    IF i > Len(a) THEN 0
    ELSE a[i] * Coef(b, M, r - (i - 1)) + ConvAt(a, b, M, r, i + 1)

MulT(M, a, b) ==
    IF a.c = << >> \/ b.c = << >> THEN ZeroT
    ELSE MakeT(M, a.e + b.e,
               Tup([k \in 1..(M \div 2) |-> ConvAt(a.c, b.c, M, k - 1, 1)]))

\* z^s as a coefficient vector.
Power(M, s) ==
    Tup([k \in 1..(M \div 2) |->
         IF k - 1 = s % M THEN 1 ELSE IF k - 1 + (M \div 2) = s % M THEN -1 ELSE 0])

\* cos and sin of the angle -2 pi s / M:  z^s = cos + i sin, and 1/i = z^(M/4).
CosT(M, s) ==
    MakeT(M, 1, Tup([k \in 1..(M \div 2) |-> Power(M, s)[k] + Power(M, 0 - s)[k]]))
SinT(M, s) ==
    MakeT(M, 1, Tup([k \in 1..(M \div 2) |->
                     Power(M, s + (M \div 4))[k] - Power(M, (M \div 4) - s)[k]]))

HalfT == [e |-> 1, c |-> <<1>>]

(***************************************************************************)
(* Complex<T>: a pair of scalars.                                          *)
(***************************************************************************)
Complex(re, im) == [re |-> re, im |-> im]
ZeroC == Complex(ZeroT, ZeroT)
AddC(a, b) == Complex(AddT(a.re, b.re), AddT(a.im, b.im))
SubC(a, b) == Complex(SubT(a.re, b.re), SubT(a.im, b.im))
ConjC(a) == Complex(a.re, NegT(a.im))
\* Complex<T> * T
ScaleC(M, a, t) == Complex(MulT(M, a.re, t), MulT(M, a.im, t))

(***************************************************************************)
(* The complex transform engine (rustfft), which is not part of this       *)
(* repository: an n-point DFT, X[k] = sum_j x[j] w^(jk) with               *)
(* w = exp(-2 pi i / n) forward and its conjugate inverse, unnormalised.   *)
(* It is computed in the ring directly: x = re + i im is one ring element  *)
(* and a multiplication by a power of z is a rotation of its coefficients. *)
(***************************************************************************)
RECURSIVE MaxExp(_, _)
MaxExp(buf, j) ==
    IF j > Len(buf) THEN 0
    ELSE Max(Max(buf[j].re.e, buf[j].im.e), MaxExp(buf, j + 1))

\* 2^E (re + i im) as a coefficient vector; i = z^(3M/4).
RingVec(M, E, a) ==
    LET fr == 2 ^ (E - a.re.e)
        fi == 2 ^ (E - a.im.e)
        q  == (3 * M) \div 4
    IN  Tup([k \in 1..(M \div 2) |->
             fr * Coef(a.re.c, M, k - 1) + fi * Coef(a.im.c, M, k - 1 - q)])

RECURSIVE BinSum(_, _, _, _, _)
\* Coefficient r of sum_j W[j] z^(step (j-1)).
BinSum(W, M, step, r, j) ==
    IF j > Len(W) THEN 0
    ELSE Coef(W[j], M, r - step * (j - 1)) + BinSum(W, M, step, r, j + 1)

\* re and im of the ring element Y / 2^E: (Y + conj Y) / 2 and (Y - conj Y) / 2i,
\* where conj turns z^r into z^(-r).
SplitC(M, E, Y) ==
    LET q == M \div 4
        D == Tup([k \in 1..(M \div 2) |-> Y[k] - Coef(Y, M, 0 - (k - 1))])
    IN  Complex(MakeT(M, E + 1, Tup([k \in 1..(M \div 2) |-> Y[k] + Coef(Y, M, 0 - (k - 1))])),
                MakeT(M, E + 1, Tup([k \in 1..(M \div 2) |-> Coef(D, M, k - 1 - q)])))

EngineDFT(M, inverse, buf) ==
    LET n == Len(buf)
        E == MaxExp(buf, 1)
        W == Tup([j \in 1..n |-> RingVec(M, E, buf[j])])
        unit == IF inverse THEN 0 - (M \div n) ELSE M \div n
    IN  Tup([k \in 1..n |->
             SplitC(M, E, Tup([r \in 1..(M \div 2) |->
                               BinSum(W, M, unit * (k - 1), r - 1, 1)]))])

\* One engine call over every chunk of n entries of buf.
RECURSIVE DFTChunks(_, _, _, _)
DFTChunks(M, inverse, buf, n) ==
    IF Len(buf) < n \/ buf = << >> THEN << >>
    ELSE EngineDFT(M, inverse, SubSeq(buf, 1, n))
         \o DFTChunks(M, inverse, SubSeq(buf, n + 1, Len(buf)), n)

\* FftPlanner::plan_fft_forward / plan_fft_inverse: a plan is its size and direction.
PlanFft(len, inverse) == [len |-> len, inverse |-> inverse]

\* Fft::get_inplace_scratch_len and Fft::get_outofplace_scratch_len, as of
\* rustfft's Dft algorithm: len entries in place, none out of place.
InplaceScratchLen(fft) == fft.len
OutOfPlaceScratchLen(fft) == 0

\* What an out-of-place call leaves once it has computed out.
EngineWrites(out, input, scratch, garbage) ==
    [panic |-> FALSE,
     input |-> IF garbage THEN out ELSE input,
     output |-> out,
     scratch |-> scratch]

\* Fft::process_outofplace_with_scratch.  A plan of size 0 returns at once; wrong
\* buffer sizes panic.  The input is scratch space to the engine: it is left
\* as it was or overwritten (garbage), the engine's choice.
EngineOutOfPlace(M, fft, input, output, scratch, garbage) ==
    IF fft.len = 0
    THEN [panic |-> FALSE, input |-> input, output |-> output, scratch |-> scratch]
    ELSE IF \/ Len(input) # Len(output)
            \/ Len(input) < fft.len
            \/ Len(input) % fft.len # 0
            \/ Len(scratch) < OutOfPlaceScratchLen(fft)
    THEN [panic |-> TRUE, input |-> input, output |-> output, scratch |-> scratch]
    ELSE EngineWrites(DFTChunks(M, fft.inverse, input, fft.len), input, scratch, garbage)

\* Fft::process_with_scratch (in place).  The engine copies the buffer into the
\* scratch and transforms from there.
EngineInPlace(M, fft, buffer, scratch) ==
    IF fft.len = 0
    THEN [panic |-> FALSE, buffer |-> buffer, scratch |-> scratch]
    ELSE IF \/ Len(buffer) < fft.len
            \/ Len(buffer) % fft.len # 0
            \/ Len(scratch) < InplaceScratchLen(fft)
    THEN [panic |-> TRUE, buffer |-> buffer, scratch |-> scratch]
    ELSE [panic |-> FALSE,
          buffer |-> DFTChunks(M, fft.inverse, buffer, fft.len),
          scratch |-> Tup([k \in 1..Len(scratch) |->
                           IF k <= fft.len THEN buffer[Len(buffer) - fft.len + k]
                           ELSE scratch[k]])]

(***************************************************************************)
(* src/src/lib.rs                                                          *)
(***************************************************************************)
ZerosC(n) == Tup([k \in 1..n |-> ZeroC])
ZerosT(n) == Tup([k \in 1..n |-> ZeroT])

\* FftError::new(format!("Wrong length of {}, expected {}, got {}", ...))
FftError(what, expected, got) ==
    "Wrong length of " \o what \o ", expected " \o ToString(expected)
    \o ", got " \o ToString(got)

\* compute_twiddle with the sign of the angle lost: (cos, sin) of +2 pi index / fft_len.
compute_twiddle_positive(index, fft_len) ==
    LET M == RingOrder(fft_len)
        s == index * (M \div fft_len)
    IN  Complex(CosT(M, s), NegT(SinT(M, s)))

\* compute_twiddle(index, fft_len): (cos, sin) of -2 pi index / fft_len.
compute_twiddle(index, fft_len) ==
    LET M == RingOrder(fft_len)
        s == index * (M \div fft_len)
    IN  Complex(CosT(M, s), SinT(M, s))

\* The number of (twiddle, left, right) triples zip3 yields.
zip3(a, b, c) == Min(a, Min(b, c))

\* twiddle_count without the rounding up for lengths that 4 does not divide.
twiddle_count_rounded_down(length) == length \div 4

\* twiddle_count without the case of the lengths that 4 divides.
twiddle_count_rounded_up(length) == length \div 4 + 1

twiddle_count(length) == IF length % 4 = 0 THEN length \div 4 ELSE length \div 4 + 1

\* RealToComplex::new with the odd branch's scratch sized by the out-of-place
\* requirement, as the even branch's is.
RealToComplexNewOutOfPlaceScratch(length) ==
    IF length % 2 > 0
    THEN LET fft == PlanFft(length, FALSE) IN
         [ok |-> TRUE,
          val |-> [twiddles |-> << >>,
                   length |-> length,
                   fft |-> fft,
                   buffer_out |-> ZerosC(length),
                   scratch |-> ZerosC(OutOfPlaceScratchLen(fft)),
                   is_even |-> FALSE]]
    ELSE LET fft == PlanFft(length \div 2, FALSE)
             M == RingOrder(length)
         IN
         [ok |-> TRUE,
          val |-> [twiddles |-> Tup([i \in 1..(twiddle_count(length) - 1) |->
                                     ScaleC(M, compute_twiddle(i, length), HalfT)]),
                   length |-> length,
                   fft |-> fft,
                   buffer_out |-> ZerosC(length \div 2 + 1),
                   scratch |-> ZerosC(OutOfPlaceScratchLen(fft)),
                   is_even |-> TRUE]]

\* RealToComplex::new.  Every length takes one of the two branches and ends in Ok.
RealToComplexNew(length) ==
    IF length % 2 > 0
    THEN LET fft == PlanFft(length, FALSE) IN
         [ok |-> TRUE,
          val |-> [twiddles |-> << >>,
                   length |-> length,
                   fft |-> fft,
                   buffer_out |-> ZerosC(length),
                   scratch |-> ZerosC(InplaceScratchLen(fft)),
                   is_even |-> FALSE]]
    ELSE LET fft == PlanFft(length \div 2, FALSE)
             M == RingOrder(length)
         IN
         [ok |-> TRUE,
          val |-> [twiddles |-> Tup([i \in 1..(twiddle_count(length) - 1) |->
                                     ScaleC(M, compute_twiddle(i, length), HalfT)]),
                   length |-> length,
                   fft |-> fft,
                   buffer_out |-> ZerosC(length \div 2 + 1),
                   scratch |-> ZerosC(OutOfPlaceScratchLen(fft)),
                   is_even |-> TRUE]]

\* ComplexToReal::new.
ComplexToRealNew(length) ==
    IF length % 2 > 0
    THEN LET fft == PlanFft(length, TRUE) IN
         [ok |-> TRUE,
          val |-> [twiddles |-> << >>,
                   length |-> length,
                   fft |-> fft,
                   buffer_in |-> ZerosC(length),
                   scratch |-> ZerosC(InplaceScratchLen(fft)),
                   is_even |-> FALSE]]
    ELSE LET fft == PlanFft(length \div 2, TRUE)
             M == RingOrder(length)
         IN
         [ok |-> TRUE,
          val |-> [twiddles |-> Tup([i \in 1..(twiddle_count(length) - 1) |->
                                     ConjC(compute_twiddle(i, length))]),
                   length |-> length,
                   fft |-> fft,
                   buffer_in |-> ZerosC(length \div 2),
                   scratch |-> ZerosC(OutOfPlaceScratchLen(fft)),
                   is_even |-> TRUE]]

\* The result of a process call: what it returns and what it leaves behind.
\* An error path that clears the caller's output before it returns.
OutcomeClearingOutput(ret, desc, self, input, output, engine) ==
    [ret |-> ret, desc |-> desc, self |-> self, input |-> input,
     output |-> IF ret = "Err" THEN Tup([k \in 1..Len(output) |-> ZeroC]) ELSE output,
     engine |-> engine]

\* engine: << >>, or what the call handed to the engine.
Outcome(ret, desc, self, input, output, engine) ==
    [ret |-> ret, desc |-> desc, self |-> self, input |-> input, output |-> output,
     engine |-> engine]

\* The slices and the scratch of one engine call, by their lengths.
Handoff(fft, buffer, output, scratch, need) ==
    <<[len |-> fft.len, buffer |-> Len(buffer), output |-> Len(output),
       scratch |-> Len(scratch), need |-> need]>>

\* A real slice of 2n values seen as n complex values (the unsafe
\* slice::from_raw_parts_mut of process), and the way back.
AliasComplex(reals) ==
    Tup([k \in 1..(Len(reals) \div 2) |-> Complex(reals[2 * k - 1], reals[2 * k])])
WriteAliased(reals, buf) ==
    Tup([k \in 1..Len(reals) |->
         IF k > 2 * Len(buf) THEN reals[k]
         ELSE IF k % 2 = 1 THEN buf[(k + 1) \div 2].re ELSE buf[k \div 2].im])

\* One turn of the loop of RealToComplex::process.
R2CPair(M, twiddle, out, out_rev) ==
    LET sum == AddC(out, out_rev)
        diff == SubC(out, out_rev)
        half == HalfT
        twiddled_re_sum == ScaleC(M, sum, twiddle.re)
        twiddled_im_sum == ScaleC(M, sum, twiddle.im)
        twiddled_re_diff == ScaleC(M, diff, twiddle.re)
        twiddled_im_diff == ScaleC(M, diff, twiddle.im)
        half_sum_re == MulT(M, half, sum.re)
        half_diff_im == MulT(M, half, diff.im)
        output_twiddled_real == AddT(twiddled_re_sum.im, twiddled_im_diff.re)
        output_twiddled_im == SubT(twiddled_im_sum.im, twiddled_re_diff.re)
    IN  [out |-> Complex(AddT(half_sum_re, output_twiddled_real),
                         AddT(half_diff_im, output_twiddled_im)),
         out_rev |-> Complex(SubT(half_sum_re, output_twiddled_real),
                             SubT(output_twiddled_im, half_diff_im))]

\* The loops of both process methods walk zip3(twiddles, left, right.rev()) over
\* a buffer of len entries split at len/2, its first and last entry chopped off:
\* the number of turns, and the slots (counted from 1) turn i reads and rewrites.
LoopTurns(twiddles_len, len) ==
    zip3(twiddles_len, len \div 2 - 1, (len - len \div 2) - 1)
LoopLeft(i) == i + 1
LoopRight(len, i) == len - i

\* The centre element both process methods handle after the loop: there is one
\* when len is odd, at len/2 (slot len/2 + 1 counted from 1).
HasCenter(len) == len % 2 = 1
CenterSlot(len) == len \div 2 + 1

\* What one turn of the loop stores: slot lo and its mirror slot hi.
R2CStore(output, lo, hi, p) == [output EXCEPT ![lo] = p.out, ![hi] = p.out_rev]

\* The loop over zip3(twiddles, output_left, output_right.rev()): turn i rewrites
\* slot i and slot len - 1 - i (counted from 0) of the output.
RECURSIVE R2CLoop(_, _, _, _, _)
R2CLoop(M, twiddles, output, i, count) ==
    IF i > count THEN output
    ELSE R2CLoop(M, twiddles,
                 R2CStore(output, LoopLeft(i), LoopRight(Len(output), i),
                          R2CPair(M, twiddles[i], output[LoopLeft(i)],
                                  output[LoopRight(Len(output), i)])),
                 i + 1, count)

\* The edge elements, lines 261-282: bins 0 and L/2 from the engine's bin 0.
R2CEdges(output) ==
    [output EXCEPT ![1] = Complex(AddT(output[1].re, output[1].im), ZeroT),
                   ![Len(output)] = Complex(SubT(output[1].re, output[1].im), ZeroT)]

\* The centre element, lines 319-323.
R2CCenter(output) ==
    IF HasCenter(Len(output))
    THEN [output EXCEPT ![CenterSlot(Len(output))] = ConjC(output[CenterSlot(Len(output))])]
    ELSE output

\* The post-processing of the even path of RealToComplex::process, lines 258-323.
R2CPostProcess(M, twiddles, output) ==
    LET mid == Len(output) \div 2
        right_len == Len(output) - mid
    IN  IF mid = 0 \/ right_len = 0 THEN output
        ELSE R2CCenter(R2CLoop(M, twiddles, R2CEdges(output), 1,
                               LoopTurns(Len(twiddles), Len(output))))

\* The zero extension writing the real parts only: the imaginary parts of the
\* previous call's result stay.
R2CZeroExtendRealOnly(input, buffer_out) ==
    Tup([k \in 1..Len(buffer_out) |->
         IF k <= Len(input) THEN Complex(input[k], buffer_out[k].im) ELSE buffer_out[k]])

\* The zero extension of the odd path, lines 326-328: zip stops at the shorter side.
R2CZeroExtend(input, buffer_out) ==
    Tup([k \in 1..Len(buffer_out) |->
         IF k <= Len(input) THEN Complex(input[k], ZeroT) ELSE buffer_out[k]])

\* The even path once the engine has run, lines 258-324.
R2CEvenDone(self, input, output, eng, hand) ==
    IF eng.panic THEN Outcome("panic", "", self, input, output, hand)
    ELSE Outcome("Ok", "", [self EXCEPT !.scratch = eng.scratch],
                 WriteAliased(input, eng.input),
                 R2CPostProcess(RingOrder(self.length), self.twiddles,
                                eng.output \o SubSeq(output, self.length \div 2 + 1,
                                                     Len(output))),
                 hand)

\* The even path, lines 240-257: the input aliased as complex goes to the engine
\* with the first length/2 slots of the output.
R2CEven(self, input, output, garbage) ==
    LET fftlen == self.length \div 2 IN
    IF fftlen > Len(output) THEN Outcome("panic", "", self, input, output, << >>)
    ELSE R2CEvenDone(self, input, output,
                     EngineOutOfPlace(RingOrder(self.length), self.fft,
                                      AliasComplex(input), SubSeq(output, 1, fftlen),
                                      self.scratch, garbage),
                     Handoff(self.fft, AliasComplex(input), SubSeq(output, 1, fftlen),
                             self.scratch, OutOfPlaceScratchLen(self.fft)))

\* The odd path once the engine has run, line 336.
R2COddDone(self, input, output, eng, hand) ==
    IF \/ eng.panic
       \/ self.length \div 2 + 1 > Len(eng.buffer)
       \/ Len(output) # self.length \div 2 + 1
    THEN Outcome("panic", "",
                 [self EXCEPT !.buffer_out = eng.buffer, !.scratch = eng.scratch],
                 input, output, hand)
    ELSE Outcome("Ok", "",
                 [self EXCEPT !.buffer_out = eng.buffer, !.scratch = eng.scratch],
                 input, SubSeq(eng.buffer, 1, self.length \div 2 + 1), hand)

\* The odd path, lines 325-335.
R2COdd(self, input, output) ==
    LET filled == R2CZeroExtend(input, self.buffer_out) IN
    R2COddDone(self, input, output,
               EngineInPlace(RingOrder(self.length), self.fft, filled, self.scratch),
               Handoff(self.fft, filled, filled, self.scratch,
                       InplaceScratchLen(self.fft)))

\* RealToComplex::process(&mut self, input, output).
RealToComplexProcess(self, input, output, garbage) ==
    IF Len(input) # self.length
    THEN Outcome("Err", FftError("input", self.length, Len(input)), self, input, output,
                 << >>)
    ELSE IF Len(output) # self.length \div 2 + 1
    THEN Outcome("Err", FftError("output", self.length \div 2 + 1, Len(input)),
                 self, input, output, << >>)
    ELSE IF self.is_even THEN R2CEven(self, input, output, garbage)
    ELSE R2COdd(self, input, output)

\* One turn of the loop of ComplexToReal::process.
C2RPair(M, twiddle, fft_input, fft_input_rev) ==
    LET sum == AddC(fft_input, fft_input_rev)
        diff == SubC(fft_input, fft_input_rev)
        twiddled_re_sum == ScaleC(M, sum, twiddle.re)
        twiddled_im_sum == ScaleC(M, sum, twiddle.im)
        twiddled_re_diff == ScaleC(M, diff, twiddle.re)
        twiddled_im_diff == ScaleC(M, diff, twiddle.im)
        output_twiddled_real == AddT(twiddled_re_sum.im, twiddled_im_diff.re)
        output_twiddled_im == SubT(twiddled_im_sum.im, twiddled_re_diff.re)
    IN  [fft_input |-> Complex(SubT(sum.re, output_twiddled_real),
                               SubT(diff.im, output_twiddled_im)),
         fft_input_rev |-> Complex(AddT(sum.re, output_twiddled_real),
                                   SubT(NegT(output_twiddled_im), diff.im))]

\* What one turn of the loop stores: slot lo and its mirror slot hi.
C2RStore(input, lo, hi, p) ==
    [input EXCEPT ![lo] = p.fft_input, ![hi] = p.fft_input_rev]

RECURSIVE C2RLoop(_, _, _, _, _)
C2RLoop(M, twiddles, input, i, count) ==
    IF i > count THEN input
    ELSE C2RLoop(M, twiddles,
                 C2RStore(input, LoopLeft(i), LoopRight(Len(input), i),
                          C2RPair(M, twiddles[i], input[LoopLeft(i)],
                                  input[LoopRight(Len(input), i)])),
                 i + 1, count)

\* The edge elements, lines 412-427: slot 0 from bins 0 and L/2.
C2REdges(input) ==
    LET first_sum == AddC(input[1], input[Len(input)])
        first_diff == SubC(input[1], input[Len(input)])
    IN  [input EXCEPT ![1] = Complex(SubT(first_sum.re, first_sum.im),
                                     SubT(first_diff.re, first_diff.im))]

\* The centre element, lines 463-467: doubled and conjugated.
C2RCenter(input) ==
    IF HasCenter(Len(input))
    THEN [input EXCEPT ![CenterSlot(Len(input))] =
              ConjC(AddC(input[CenterSlot(Len(input))], input[CenterSlot(Len(input))]))]
    ELSE input

\* The pre-processing of the even path of ComplexToReal::process, lines 408-467.
\* done: the match on the edge elements found none and process returns Ok.
C2RPreProcess(M, twiddles, input) ==
    LET mid == Len(input) \div 2
        right_len == Len(input) - mid
    IN  IF mid = 0 \/ right_len = 0 THEN [done |-> TRUE, input |-> input]
        ELSE [done |-> FALSE,
              input |-> C2RCenter(C2RLoop(M, twiddles, C2REdges(input), 1,
                                          LoopTurns(Len(twiddles), Len(input))))]

\* The mirror fill without the conjugation.
C2RMirrorNoConj(length, input, buffer_in) ==
    LET count == Min(Min(Len(buffer_in), length \div 2), Max(Len(input) - 1, 0))
    IN  Tup([k \in 1..Len(buffer_in) |->
             IF Len(buffer_in) - k + 1 <= count
             THEN input[Len(buffer_in) - k + 2]
             ELSE buffer_in[k]])

\* The mirror fill appending the conjugates to the buffer instead of writing
\* them over its tail.
C2RMirrorAppend(length, input, buffer_in) ==
    LET count == Min(length \div 2, Max(Len(input) - 1, 0))
    IN  buffer_in \o Tup([k \in 1..count |-> ConjC(input[count - k + 2])])

\* The mirror fill zipping with input.iter() without its skip(1).
C2RMirrorNoSkip(length, input, buffer_in) ==
    LET count == Min(Min(Len(buffer_in), length \div 2), Len(input))
    IN  Tup([k \in 1..Len(buffer_in) |->
             IF Len(buffer_in) - k + 1 <= count
             THEN ConjC(input[Len(buffer_in) - k + 1])
             ELSE buffer_in[k]])

\* The mirror fill of the odd path, lines 485-488: the last slots of buffer_in,
\* walked backwards, take the conjugates of input[1..].
C2RMirror(length, input, buffer_in) ==
    LET count == Min(Min(Len(buffer_in), length \div 2), Max(Len(input) - 1, 0))
    IN  Tup([k \in 1..Len(buffer_in) |->
             IF Len(buffer_in) - k + 1 <= count
             THEN ConjC(input[Len(buffer_in) - k + 2])
             ELSE buffer_in[k]])

\* The even path once the engine has run, line 481.
C2REvenDone(self, input, output, eng, hand) ==
    IF eng.panic THEN Outcome("panic", "", self, input, output, hand)
    ELSE Outcome("Ok", "", [self EXCEPT !.scratch = eng.scratch],
                 eng.input \o SubSeq(input, Len(output) \div 2 + 1, Len(input)),
                 WriteAliased(output, eng.output), hand)

\* The even path after the pre-processing, lines 469-480: the first
\* output.len()/2 slots of the input go to the engine with the output aliased
\* as complex.
C2REvenEngine(self, input, output, garbage, pre) ==
    LET n == Len(output) \div 2 IN
    IF pre.done THEN Outcome("Ok", "", self, input, output, << >>)
    ELSE IF n > Len(pre.input) THEN Outcome("panic", "", self, pre.input, output, << >>)
    ELSE C2REvenDone(self, pre.input, output,
                     EngineOutOfPlace(RingOrder(self.length), self.fft,
                                      SubSeq(pre.input, 1, n), AliasComplex(output),
                                      self.scratch, garbage),
                     Handoff(self.fft, SubSeq(pre.input, 1, n), AliasComplex(output),
                             self.scratch, OutOfPlaceScratchLen(self.fft)))

\* The even path, lines 407-481.
C2REven(self, input, output, garbage) ==
    C2REvenEngine(self, input, output, garbage,
                  C2RPreProcess(RingOrder(self.length), self.twiddles, input))

\* The odd path once the engine has run, lines 494-496.
C2ROddDone(self, input, output, eng, hand) ==
    Outcome(IF eng.panic THEN "panic" ELSE "Ok", "",
            [self EXCEPT !.buffer_in = eng.buffer, !.scratch = eng.scratch],
            input,
            IF eng.panic THEN output
            ELSE Tup([k \in 1..Len(output) |->
                      IF k <= Len(eng.buffer) THEN eng.buffer[k].re ELSE output[k]]),
            hand)

\* The odd path after the copy and the mirror fill, lines 490-493.
C2ROddEngine(self, input, output, mirrored) ==
    C2ROddDone(self, input, output,
               EngineInPlace(RingOrder(self.length), self.fft, mirrored, self.scratch),
               Handoff(self.fft, mirrored, mirrored, self.scratch,
                       InplaceScratchLen(self.fft)))

\* buffer_in as the odd path hands it to the engine, lines 483-488: the copy of
\* the input over its head, then the mirror fill.
C2RFill(self, input) ==
    C2RMirror(self.length, input,
              input \o SubSeq(self.buffer_in, Len(input) + 1, Len(self.buffer_in)))

\* The odd path, lines 482-497.
C2ROdd(self, input, output) ==
    IF Len(input) > Len(self.buffer_in)
    THEN Outcome("panic", "", self, input, output, << >>)
    ELSE C2ROddEngine(self, input, output, C2RFill(self, input))

\* ComplexToReal::process(&mut self, input, output).
ComplexToRealProcess(self, input, output, garbage) ==
    IF Len(input) # self.length \div 2 + 1
    THEN Outcome("Err", FftError("input", self.length \div 2 + 1, Len(input)),
                 self, input, output, << >>)
    ELSE IF Len(output) # self.length
    THEN Outcome("Err", FftError("output", self.length, Len(input)), self, input, output,
                 << >>)
    ELSE IF self.is_even THEN C2REven(self, input, output, garbage)
    ELSE C2ROdd(self, input, output)

(***************************************************************************)
(* The caller.  It owns one RealToComplex and one ComplexToReal, built for *)
(* the same length as in the crate's example (lines 84-89), and the three  *)
(* buffers it passes to process.                                           *)
(***************************************************************************)
VARIABLES
    r2c,        \* << >> or <<the RealToComplex instance>>
    c2r,        \* << >> or <<the ComplexToReal instance>>
    indata,     \* the real buffer passed to RealToComplex::process
    spectrum,   \* the complex buffer: output of the forward, input of the inverse
    outdata,    \* the real buffer passed to ComplexToReal::process
    ret,        \* what the last call returned
    call        \* the last call and the arguments it was given

vars == <<r2c, c2r, indata, spectrum, outdata, ret, call>>

\* The even lengths up to 2 MaxHalfLen and the odd lengths up to MaxOddLen.
Lengths == {2 * h : h \in 0..MaxHalfLen} \cup {L \in 1..MaxOddLen : L % 2 = 1}

NoCall == [op |-> "none", length |-> 0, input |-> << >>, output |-> << >>,
           self |-> << >>, x |-> << >>]
NoRet == [ret |-> "none", desc |-> "", engine |-> << >>]

\* Caller buffers.  Real inputs: silence, every unit impulse scaled by 1..MaxVal,
\* and the ramp 0, 1, 2, ... of the crate's tests.
ImpulseT(n, j, v) == Tup([k \in 1..n |-> IF k = j THEN IntT(v) ELSE ZeroT])
RampT(n) == Tup([k \in 1..n |-> IntT(k - 1)])
RealInputs(L) ==
    {ZerosT(L), RampT(L)} \cup {ImpulseT(L, j, v) : j \in 1..L, v \in 1..MaxVal}

\* Half-spectra: silence, one bin set to v, to iv or to v + iv, and the
\* pattern (n, 2n) of the crate's test with and without its edge bins made real.
ImpulseC(n, j, z) == Tup([k \in 1..n |-> IF k = j THEN z ELSE ZeroC])
PatternC(n) == Tup([k \in 1..n |-> Complex(IntT(k - 1), IntT(2 * (k - 1)))])
TestSpectrum(L) ==
    LET n == L \div 2 + 1 IN
    Tup([k \in 1..n |->
         IF k = 1 \/ (L % 2 = 0 /\ k = n) THEN Complex(IntT(k - 1), ZeroT)
         ELSE PatternC(n)[k]])
SpectrumInputs(L) ==
    LET n == L \div 2 + 1 IN
    {ZerosC(n), PatternC(n), TestSpectrum(L)}
    \cup {ImpulseC(n, j, z) : j \in 1..n,
          z \in UNION {{Complex(IntT(v), ZeroT), Complex(ZeroT, IntT(v)),
                        Complex(IntT(v), IntT(v))} : v \in 1..MaxVal}}

\* Buffers that already hold something, of any size.
DirtyT(n) == Tup([k \in 1..n |-> IntT(k)])
DirtyC(n) == Tup([k \in 1..n |-> Complex(IntT(k), IntT(2 * k))])
Near(n) == {m \in {n - 1, n + 1} : m >= 0}

R2CInputs(L) == RealInputs(L) \cup {DirtyT(n) : n \in Near(L)}
R2COutputs(L) ==
    {ZerosC(L \div 2 + 1)} \cup {DirtyC(n) : n \in Near(L \div 2 + 1) \cup {L \div 2 + 1}}
C2RInputs(L) == SpectrumInputs(L) \cup {DirtyC(n) : n \in Near(L \div 2 + 1)}
C2ROutputs(L) == {ZerosT(L)} \cup {DirtyT(n) : n \in Near(L) \cup {L}}

Init ==
    /\ r2c = << >>
    /\ c2r = << >>
    /\ indata = << >>
    /\ spectrum = << >>
    /\ outdata = << >>
    /\ ret = NoRet
    /\ call = NoCall

\* No process call's buffers are still held by the caller.
Idle == call.op \in {"none", "RealToComplex::new", "ComplexToReal::new"}

\* let mut r2c = RealToComplex::<T>::new(length)
R2CNew(length) ==
    /\ r2c = << >>
    /\ IF c2r = << >> THEN TRUE ELSE c2r[1].length = length
    /\ Idle
    /\ LET res == RealToComplexNew(length) IN
       /\ r2c' = IF res.ok THEN <<res.val>> ELSE << >>
       /\ ret' = [ret |-> IF res.ok THEN "Ok" ELSE "Err", desc |-> "", engine |-> << >>]
    /\ call' = [NoCall EXCEPT !.op = "RealToComplex::new", !.length = length]
    /\ UNCHANGED <<c2r, indata, spectrum, outdata>>

\* let mut c2r = ComplexToReal::<T>::new(length)
C2RNew(length) ==
    /\ c2r = << >>
    /\ IF r2c = << >> THEN TRUE ELSE r2c[1].length = length
    /\ Idle
    /\ LET res == ComplexToRealNew(length) IN
       /\ c2r' = IF res.ok THEN <<res.val>> ELSE << >>
       /\ ret' = [ret |-> IF res.ok THEN "Ok" ELSE "Err", desc |-> "", engine |-> << >>]
    /\ call' = [NoCall EXCEPT !.op = "ComplexToReal::new", !.length = length]
    /\ UNCHANGED <<r2c, indata, spectrum, outdata>>

Garbage(self, input, output, inlen, outlen) ==
    IF self.is_even /\ self.length > 0 /\ Len(input) = inlen /\ Len(output) = outlen
    THEN BOOLEAN ELSE {FALSE}

\* The caller's view once r2c.process(input, output) has returned o.
R2CReturn(o, input, output) ==
    /\ r2c' = <<o.self>>
    /\ indata' = o.input
    /\ spectrum' = o.output
    /\ ret' = [ret |-> o.ret, desc |-> o.desc, engine |-> o.engine]
    /\ call' = [NoCall EXCEPT !.op = "RealToComplex::process",
                              !.length = r2c[1].length,
                              !.input = input, !.output = output, !.self = r2c]

\* r2c.process(&mut indata, &mut spectrum) on buffers the caller has just filled.
R2CProcess ==
    /\ r2c # << >>
    /\ Idle
    /\ \E input \in R2CInputs(r2c[1].length), output \in R2COutputs(r2c[1].length) :
       \E garbage \in Garbage(r2c[1], input, output,
                              r2c[1].length, r2c[1].length \div 2 + 1) :
       R2CReturn(RealToComplexProcess(r2c[1], input, output, garbage), input, output)
    /\ UNCHANGED <<c2r, outdata>>

\* The caller's view once c2r.process(input, output) has returned o.
C2RReturn(o, input, output, x) ==
    /\ c2r' = <<o.self>>
    /\ spectrum' = o.input
    /\ outdata' = o.output
    /\ ret' = [ret |-> o.ret, desc |-> o.desc, engine |-> o.engine]
    /\ call' = [NoCall EXCEPT !.op = "ComplexToReal::process",
                              !.length = c2r[1].length,
                              !.input = input, !.output = output, !.self = c2r,
                              !.x = x]

C2RCall(input, output, x) ==
    \E garbage \in Garbage(c2r[1], input, output,
                           c2r[1].length \div 2 + 1, c2r[1].length) :
       C2RReturn(ComplexToRealProcess(c2r[1], input, output, garbage), input, output, x)

\* c2r.process(&mut spectrum, &mut outdata) on buffers the caller has just filled.
C2RProcess ==
    /\ c2r # << >>
    /\ Idle
    /\ \E input \in C2RInputs(c2r[1].length), output \in C2ROutputs(c2r[1].length) :
       C2RCall(input, output, << >>)
    /\ UNCHANGED <<r2c, indata>>

\* c2r.process(&mut spectrum, &mut outdata) on the spectrum the forward
\* transform has just written.
C2RProcessSpectrum ==
    /\ c2r # << >>
    /\ call.op = "RealToComplex::process"
    /\ ret.ret = "Ok"
    /\ \E output \in C2ROutputs(c2r[1].length) : C2RCall(spectrum, output, call.input)
    /\ UNCHANGED <<r2c, indata>>

\* The caller is done with the buffers of the last process call.
CallerRelease ==
    /\ ~Idle
    /\ indata' = << >>
    /\ spectrum' = << >>
    /\ outdata' = << >>
    /\ ret' = NoRet
    /\ call' = NoCall
    /\ UNCHANGED <<r2c, c2r>>

Next ==
    \/ \E length \in Lengths : R2CNew(length)
    \/ \E length \in Lengths : C2RNew(length)
    \/ R2CProcess
    \/ C2RProcess
    \/ C2RProcessSpectrum
    \/ CallerRelease

Spec == Init /\ [][Next]_vars

NextForward ==
    \/ \E length \in Lengths : R2CNew(length)
    \/ R2CProcess
    \/ CallerRelease

\* The forward repacker alone.
SpecForward == Init /\ [][NextForward]_vars

NextInverse ==
    \/ \E length \in Lengths : C2RNew(length)
    \/ C2RProcess
    \/ CallerRelease

\* The inverse repacker alone.
SpecInverse == Init /\ [][NextInverse]_vars

NextSeparate ==
    \/ \E length \in Lengths : c2r = << >> /\ R2CNew(length)
    \/ \E length \in Lengths : r2c = << >> /\ C2RNew(length)
    \/ R2CProcess
    \/ C2RProcess
    \/ CallerRelease

\* A caller that owns one repacker, of either kind.
SpecSeparate == Init /\ [][NextSeparate]_vars

NextRoundTrip ==
    \/ \E length \in Lengths : R2CNew(length)
    \/ \E length \in Lengths : C2RNew(length)
    \/ R2CProcess
    \/ C2RProcessSpectrum
    \/ CallerRelease

\* The caller of the crate's example: every spectrum the inverse repacker is
\* given is one the forward repacker has just written.
SpecRoundTrip == Init /\ [][NextRoundTrip]_vars

(***************************************************************************)
(* The reference transforms of the crate's tests (lines 523-580): the full *)
(* complex transform of the same length.                                   *)
(***************************************************************************)
ReferenceForward(length, x) ==
    EngineDFT(RingOrder(length), FALSE, Tup([k \in 1..length |-> Complex(x[k], ZeroT)]))

\* Slots 0..L/2 are X, slot L-k is conj(X[k]) for k = 1..L/2.
ConjugateSymmetricExtension(length, X) ==
    Tup([j \in 1..length |->
         IF j <= length \div 2 + 1 THEN X[j] ELSE ConjC(X[length - j + 2])])

ReferenceInverse(length, X) ==
    LET full == EngineDFT(RingOrder(length), TRUE, ConjugateSymmetricExtension(length, X))
    IN  Tup([k \in 1..length |-> full[k].re])

R2CDone == call.op = "RealToComplex::process"
C2RDone == call.op = "ComplexToReal::process"

\* C1: for every length L >= 2 a successful RealToComplex::process leaves in the
\* output the L/2+1 first bins of the full L-point forward transform of the input
\* taken with zero imaginary parts.
ForwardIsHalfOfFullTransform ==
    (R2CDone /\ ret.ret = "Ok" /\ call.length >= 2)
    => /\ Len(spectrum) = call.length \div 2 + 1
       /\ spectrum = SubSeq(ReferenceForward(call.length, call.input),
                            1, call.length \div 2 + 1)

\* The ramp of length 10 has been transformed, and its bin 1 is not real.
ForwardOfRampReached ==
    /\ R2CDone /\ ret.ret = "Ok"
    /\ call.length = 10
    /\ call.input = RampT(10)
    /\ spectrum[2].im # ZeroT

\* C2: for every length L >= 1 and every real x of length L, ComplexToReal::process
\* on the spectrum RealToComplex::process wrote for x succeeds and writes L * x.
RoundTripScalesByLength ==
    (C2RDone /\ call.x # << >> /\ call.length >= 1 /\ Len(call.output) = call.length)
    => /\ ret.ret = "Ok"
       /\ outdata = Tup([k \in 1..call.length |->
                         MulT(RingOrder(call.length), IntT(call.length), call.x[k])])

\* The ramp of length 10 has gone forward and back: its last sample 9 came back as 90.
RoundTripOfRampReached ==
    /\ C2RDone /\ ret.ret = "Ok"
    /\ call.length = 10
    /\ call.x = RampT(10)
    /\ outdata[10] = IntT(90)

\* C3: for every length L and every half-spectrum X whose bin 0 (and, for even L,
\* bin L/2) is real, a successful ComplexToReal::process writes the real parts of
\* the full L-point inverse transform of the conjugate-symmetric extension of X.
InverseIsRealPartOfFullTransform ==
    (/\ C2RDone /\ ret.ret = "Ok"
     /\ call.input[1].im = ZeroT
     /\ call.length % 2 = 0 => call.input[call.length \div 2 + 1].im = ZeroT)
    => outdata = ReferenceInverse(call.length, call.input)

\* The spectrum of the crate's test, at length 10, has been transformed back.
InverseOfTestSpectrumReached ==
    /\ C2RDone /\ ret.ret = "Ok"
    /\ call.length = 10
    /\ call.input = TestSpectrum(10)
    /\ outdata # ZerosT(10)

\* C4: in both process methods a wrong input or output length ends the call with
\* the error and leaves the caller's input, the caller's output and the instance,
\* its internal buffers included, as they were.
LengthMismatchLeavesAllUntouched ==
    /\ (R2CDone /\ (\/ Len(call.input) # call.length
                    \/ Len(call.output) # call.length \div 2 + 1))
       => (ret.ret = "Err" /\ indata = call.input /\ spectrum = call.output
           /\ r2c = call.self)
    /\ (C2RDone /\ (\/ Len(call.input) # call.length \div 2 + 1
                    \/ Len(call.output) # call.length))
       => (ret.ret = "Err" /\ spectrum = call.input /\ outdata = call.output
           /\ c2r = call.self)

\* An inverse repacker whose internal buffer holds an earlier call's data has
\* refused an output of the wrong length.
MismatchOnUsedInstanceReached ==
    /\ C2RDone /\ ret.ret = "Err"
    /\ Len(call.input) = call.length \div 2 + 1
    /\ Len(call.output) # call.length
    /\ c2r[1].buffer_in # ZerosC(Len(c2r[1].buffer_in))

\* C5: every length error message names the buffer that failed with its expected
\* and its own actual length, for the input and for the output, in both process
\* methods.
MessageCarriesSizesOfFailingBuffer ==
    /\ (R2CDone /\ ret.ret = "Err")
       => ret.desc = IF Len(call.input) # call.length
                     THEN FftError("input", call.length, Len(call.input))
                     ELSE FftError("output", call.length \div 2 + 1, Len(call.output))
    /\ (C2RDone /\ ret.ret = "Err")
       => ret.desc = IF Len(call.input) # call.length \div 2 + 1
                     THEN FftError("input", call.length \div 2 + 1, Len(call.input))
                     ELSE FftError("output", call.length, Len(call.output))

\* C6: construction succeeds exactly when the length is positive; length 0 is
\* rejected.
ConstructionSucceedsIffPositive ==
    (call.op \in {"RealToComplex::new", "ComplexToReal::new"})
    => (ret.ret = "Ok" <=> call.length >= 1)

\* C7: after every successful RealToComplex::process bin 0 of the output is real,
\* and so is bin L/2 when L is even.
EdgeBinsAreReal ==
    (R2CDone /\ ret.ret = "Ok")
    => /\ spectrum[1].im = ZeroT
       /\ call.length % 2 = 0 => spectrum[call.length \div 2 + 1].im = ZeroT

\* C8: the output of a successful process call is what a newly constructed
\* repacker of the same length returns for the same call, whatever calls the
\* instance has served before.
OutputIndependentOfHistory ==
    /\ (R2CDone /\ ret.ret = "Ok")
       => spectrum = RealToComplexProcess(RealToComplexNew(call.length).val,
                                          call.input, call.output, FALSE).output
    /\ (C2RDone /\ ret.ret = "Ok")
       => outdata = ComplexToRealProcess(ComplexToRealNew(call.length).val,
                                         call.input, call.output, FALSE).output

\* A forward repacker of odd length whose internal buffer held an earlier
\* spectrum has transformed silence.
SilenceAfterSignalReached ==
    /\ R2CDone /\ ret.ret = "Ok"
    /\ call.length = 5
    /\ call.self[1].buffer_out # ZerosC(5)
    /\ call.input = ZerosT(5)

\* What construction fixes of an instance.
Configuration(self, buffer) ==
    [length |-> self.length, is_even |-> self.is_even, twiddles |-> self.twiddles,
     fft |-> self.fft, buffer |-> Len(buffer), scratch |-> Len(self.scratch)]

\* C9: whatever process calls an instance has served, its length, its even/odd
\* flag, its twiddles and the lengths of its internal buffer and of its scratch
\* are those construction gave it.
ConfigurationIsFixed ==
    /\ r2c # << >>
       => /\ LET new == RealToComplexNew(r2c[1].length).val IN
             Configuration(r2c[1], r2c[1].buffer_out) = Configuration(new, new.buffer_out)
          /\ R2CDone => r2c[1].length = call.length
    /\ c2r # << >>
       => /\ LET new == ComplexToRealNew(c2r[1].length).val IN
             Configuration(c2r[1], c2r[1].buffer_in) = Configuration(new, new.buffer_in)
          /\ C2RDone => c2r[1].length = call.length

\* An inverse repacker has rewritten the contents of an internal buffer that
\* already held an earlier call's data.
BufferContentsRewrittenReached ==
    /\ C2RDone /\ ret.ret = "Ok"
    /\ call.self[1].buffer_in # ZerosC(Len(call.self[1].buffer_in))
    /\ c2r[1].buffer_in # call.self[1].buffer_in

\* C10: no process call indexes or copies out of bounds; a call with buffers of
\* the right lengths succeeds, and what it hands to the engine has the planned
\* length (L/2 for even L, L for odd L) with a scratch of the engine's requirement.
EngineCallsInBounds ==
    /\ ret.ret # "panic"
    /\ (R2CDone /\ Len(call.input) = call.length
                /\ Len(call.output) = call.length \div 2 + 1) => ret.ret = "Ok"
    /\ (C2RDone /\ Len(call.input) = call.length \div 2 + 1
                /\ Len(call.output) = call.length) => ret.ret = "Ok"
    /\ ret.engine # << >>
       => LET h == ret.engine[1] IN
          /\ h.len = IF call.length % 2 = 0 THEN call.length \div 2 ELSE call.length
          /\ h.buffer = h.len
          /\ h.output = h.len
          /\ h.scratch = h.need

\* The odd path has handed its internal buffer of 5 entries to the engine.
OddEngineCallReached ==
    /\ R2CDone /\ ret.ret = "Ok"
    /\ call.length = 5
    /\ ret.engine # << >>
    /\ ret.engine[1].buffer = 5

\* How often the loop and the centre rule of the even path rewrite one slot
\* (counted from 1) of a buffer of len entries.
Rewrites(twiddles_len, len, slot) ==
    Cardinality({i \in 1..LoopTurns(twiddles_len, len) : LoopLeft(i) = slot})
    + Cardinality({i \in 1..LoopTurns(twiddles_len, len) : LoopRight(len, i) = slot})
    + (IF HasCenter(len) /\ CenterSlot(len) = slot THEN 1 ELSE 0)

TwiddlesCoverPairs(self) ==
    (self.length % 2 = 0 /\ self.length >= 2)
    => LET L == self.length
           n == self.length \div 2 + 1
           count == Len(self.twiddles)
       IN  /\ count = (IF L % 4 = 0 THEN L \div 4 ELSE L \div 4 + 1) - 1
           /\ count = Cardinality({k \in 1..L : k < L \div 2 - k})
           /\ LoopTurns(count, n) = count
           /\ \A i \in 1..count :
                 /\ (LoopLeft(i) - 1) + (LoopRight(n, i) - 1) = L \div 2
                 /\ LoopLeft(i) - 1 < LoopRight(n, i) - 1
           /\ \A k \in 1..(L \div 2 - 1) : Rewrites(count, n, k + 1) = 1
           /\ Rewrites(count, n, 1) = 0
           /\ Rewrites(count, n, n) = 0
           /\ HasCenter(n) <=> L % 4 = 0
           /\ HasCenter(n) => CenterSlot(n) - 1 = L \div 4

\* C11: for every even length L >= 2 the twiddle table has (L/4 if 4 divides L,
\* else L/4+1) minus 1 entries, as many as there are mirrored pairs (k, L/2-k)
\* with 1 <= k < L/2-k; in the even path of both process methods the loop and
\* the centre rule rewrite every bin 1..L/2-1 exactly once, the centre bin L/4
\* being there exactly when L/2+1 is odd, and they never touch bins 0 and L/2.
TwiddleTableCoversEveryPair ==
    /\ r2c # << >> => TwiddlesCoverPairs(r2c[1])
    /\ c2r # << >> => TwiddlesCoverPairs(c2r[1])

\* A forward repacker of length 12, with its two twiddles and its centre bin 3,
\* has transformed the ramp.
TwoPairsAndCenterReached ==
    /\ R2CDone /\ ret.ret = "Ok"
    /\ r2c[1].length = 12
    /\ Len(r2c[1].twiddles) = 2
    /\ call.input = RampT(12)
    /\ spectrum[4] # call.output[4]

\* C12: in the odd path of ComplexToReal::process the buffer handed to the
\* inverse engine has all its L slots written by the call, slot k with input[k]
\* for 0 <= k <= L/2 and slot L-k with conj(input[k]) for 1 <= k <= L/2, two
\* ranges that are disjoint and cover 0..L-1; the caller's input is as it was
\* and output[n] is the real component of the engine's result n.
OddInverseRefillsWholeBuffer ==
    (C2RDone /\ ret.ret = "Ok" /\ call.length % 2 = 1)
    => LET L == call.length
           handed == C2RFill(call.self[1], call.input)
           result == EngineDFT(RingOrder(call.length), TRUE,
                               C2RFill(call.self[1], call.input))
       IN  /\ Len(handed) = L
           /\ \A k \in 0..(L \div 2) : handed[k + 1] = call.input[k + 1]
           /\ \A k \in 1..(L \div 2) : handed[L - k + 1] = ConjC(call.input[k + 1])
           /\ {k + 1 : k \in 0..(L \div 2)} \cap {L - k + 1 : k \in 1..(L \div 2)} = {}
           /\ {k + 1 : k \in 0..(L \div 2)} \cup {L - k + 1 : k \in 1..(L \div 2)} = 1..L
           /\ SubSeq(c2r[1].scratch, 1, L) = handed
           /\ spectrum = call.input
           /\ c2r[1].buffer_in = result
           /\ Len(outdata) = L
           /\ \A n \in 1..L : outdata[n] = result[n].re

\* An inverse repacker of length 5 whose internal buffer held the result of an
\* earlier call has transformed the pattern of the crate's test.
OddInverseOnUsedBufferReached ==
    /\ C2RDone /\ ret.ret = "Ok"
    /\ call.length = 5
    /\ call.self[1].buffer_in # ZerosC(5)
    /\ call.input = PatternC(3)
    /\ call.output = DirtyT(5)
    /\ outdata # DirtyT(5)

\* A half-spectrum with the imaginary components of bin 0 and, for even
\* length, of bin length/2 set to zero, as the crate's test does.
RealEdges(length, X) ==
    Tup([k \in 1..Len(X) |->
         IF k = 1 \/ (length % 2 = 0 /\ k = length \div 2 + 1)
         THEN Complex(X[k].re, ZeroT)
         ELSE X[k]])

\* C13: the output of a successful ComplexToReal::process depends neither on the
\* imaginary component of input bin 0 nor, for even L, on that of input bin L/2:
\* the same instance given the same spectrum with those components zeroed
\* writes the same output, on the even path as on the odd path.
OutputIgnoresEdgeImaginaryParts ==
    (C2RDone /\ ret.ret = "Ok")
    => outdata = ComplexToRealProcess(call.self[1],
                                      RealEdges(call.length, call.input),
                                      call.output, FALSE).output

====
